---- MODULE Spec2Model ----
(***************************************************************************)
(* A model of the lsm-tree storage engine: the mem-table (mem_table.rs),   *)
(* its write-ahead log (wal.rs) and the engine core (lsm_storage.rs).      *)
(*                                                                         *)
(*   Spec      get / put / delete / write_batch, try_freeze and the freeze *)
(*             of the active mem-table, run by concurrent threads, one     *)
(*             step for each access to shared data.                        *)
(*   MemSpec   the mem-table API with a WAL: create_with_wal, put,         *)
(*             recover_with_wal, called by one thread.                     *)
(*   LifeSpec  the MiniLsm handle: close, Drop and the two worker threads. *)
(*   CreateSpec   the engine created with each of the compaction options. *)
(*   FairSpec     Spec with every thread scheduled again and again.        *)
(*   WalFailSpec  the writers of Spec on a disk whose log appends can fail.*)
(***************************************************************************)
EXTENDS Integers, Sequences, FiniteSets, TLC

(***************************************************************************)
(* Bounds of the model.                                                    *)
(***************************************************************************)
\* records written through the engine in one behaviour
MaxOps == 2
\* options.target_sst_size of the engine under test, in bytes
TargetSstSize == 2
\* calls of the mem-table API in one behaviour of MemSpec
MaxMemCalls == 4
\* calls of close in one behaviour of LifeSpec
MaxCloses == 3
\* the largest max_levels of the compaction options an engine is created with
MaxLevels == 2
\* options.num_memttable_limit of the engine under test
NumMemtableLimit == 1

\* foreground threads calling put / delete / write_batch
Writers == {1, 2}
\* foreground threads calling get
Readers == {1}

(***************************************************************************)
(* Byte strings are sequences of small numbers; their length is Len.       *)
(***************************************************************************)
Keys == {<<1>>, <<2>>}
Values == {<<1>>, <<2, 2>>}
EmptyBytes == <<>>
KeyInputs == Keys \cup {EmptyBytes}
ValueInputs == Values \cup {EmptyBytes}

\* Option<T>
None == [some |-> FALSE, val |-> <<>>]
Some(v) == [some |-> TRUE, val |-> v]

\* WriteBatchRecord
Put(k, v) == [kind |-> "Put", key |-> k, value |-> v]
Del(k) == [kind |-> "Del", key |-> k, value |-> EmptyBytes]

\* the batches write_batch is called with (put and delete pass one record)
Batches == {<<Put(<<1>>, <<2, 2>>), Del(<<1>>)>>, <<Del(<<2>>), Put(<<2>>, <<1>>)>>}

VARIABLES
    mems,         \* the heap of MemTable objects, by allocation address
    files,        \* the file system: path -> contents of the file
    state,        \* the published Arc<LsmStorageState>
    next_sst_id,  \* LsmStorageInner::next_sst_id
    options,      \* LsmStorageInner::options
    state_lock,   \* holder of LsmStorageInner::state_lock (0: free)
    read_guards,  \* threads holding a read guard of LsmStorageInner::state
    wr,           \* writer threads: position and locals
    rd,           \* reader threads: position and locals
    ops,          \* records written so far
    last,         \* history: the last value applied to each key
    bytes_put,    \* history: bytes of the puts applied to each mem-table
    old_state,    \* history: the state published before the last freeze
    skipped,      \* history: mem-tables seen full by a writer whose second look declined
    api,          \* MemSpec: the last call of the mem-table API and its result
    wal_owner,    \* MemSpec history: path -> the mem-table whose create_with_wal made the file
    lsm           \* LifeSpec: the MiniLsm handle, its worker threads and their channels

vars == <<mems, files, state, next_sst_id, options, state_lock, read_guards,
          wr, rd, ops, last, bytes_put, old_state, skipped, api, wal_owner, lsm>>

(***************************************************************************)
(* wal.rs                                                                  *)
(***************************************************************************)
RECURSIVE Digits(_)
Digits(n) == IF n < 10 THEN <<n>> ELSE Digits(n \div 10) \o <<n % 10>>

RECURSIVE ZeroPad(_, _)
ZeroPad(s, width) == IF Len(s) >= width THEN s ELSE ZeroPad(<<0>> \o s, width)

\* format!("{:05}.wal", id) under the engine's directory
path_of_wal(id) == ZeroPad(Digits(id), 5)

\* OpenOptions::new().read(true).create_new(true).write(true).open(path)
OpenCreateNew(fs, path) ==
    IF path \in DOMAIN fs
    THEN [ok |-> FALSE, fs |-> fs]
    ELSE [ok |-> TRUE, fs |-> [p \in DOMAIN fs \cup {path} |-> IF p = path THEN <<>> ELSE fs[p]]]

\* a create that opens with create(true) and truncate(true): a file already at
\* the path is emptied and taken over
WalCreateOverwrite(fs, path) ==
    [ok |-> TRUE, fs |-> [p \in DOMAIN fs \cup {path} |-> IF p = path THEN <<>> ELSE fs[p]]]

\* Wal::create
WalCreate(fs, path) == OpenCreateNew(fs, path)

\* Wal::put: appends nothing and returns Ok
WalPut(fs, path, key, value) == [ok |-> TRUE, fs |-> fs]

\* the append to the log file that Wal::put is to do, when the write fails
\* with an IoError
WalPutIoError(fs, path, key, value) == [ok |-> FALSE, fs |-> fs]

\* Wal::recover: opens the file with create_new and replays nothing into the map
WalRecover(fs, path, map) ==
    LET f == OpenCreateNew(fs, path) IN [ok |-> f.ok, fs |-> f.fs, map |-> map]

(***************************************************************************)
(* mem_table.rs                                                            *)
(***************************************************************************)
EmptyMap == [k \in {} |-> EmptyBytes]

\* SkipMap::insert
MapInsert(map, key, value) ==
    [k \in DOMAIN map \cup {key} |-> IF k = key THEN value ELSE map[k]]

\* MemTable::create; wal is <<>> (None) or <<path>> (Some)
MemTableCreate(id) ==
    [id |-> id, map |-> EmptyMap, approximate_size |-> 0, wal |-> <<>>]

\* MemTable::create_with_wal, once Wal::create has succeeded
MemTableCreateWithWal(id, path) ==
    [id |-> id, map |-> EmptyMap, approximate_size |-> 0, wal |-> <<path>>]

\* MemTable::recover_with_wal, once Wal::recover has succeeded with map
MemTableRecoverWithWal(id, path, map) ==
    [id |-> id, map |-> map, approximate_size |-> 0, wal |-> <<path>>]

\* a lookup that answers with the entry at the first key >= key (lower_bound)
MemTableGetLowerBound(m, key) ==
    LET ge == {k \in DOMAIN m.map : k = key \/ (Len(k) = Len(key) /\ k[1] > key[1])}
    IN IF ge = {} THEN None
       ELSE Some(m.map[CHOOSE k \in ge : \A j \in ge : j = k \/ j[1] > k[1]])

\* MemTable::get
MemTableGet(m, key) ==
    IF key \in DOMAIN m.map THEN Some(m.map[key]) ELSE None

\* the estimate without the key's length
EstimatedSizeValueOnly(key, value) == Len(value)

\* MemTable::put: let estimated_size = key.len() + value.len()
EstimatedSize(key, value) == Len(key) + Len(value)

\* MemTable::put, first statement: self.map.insert(key, value)
MemTablePutInsert(m, key, value) ==
    [m EXCEPT !.map = MapInsert(m.map, key, value)]

\* MemTable::put, second statement: approximate_size.fetch_add(estimated_size)
MemTablePutFetchAdd(m, key, value) ==
    [m EXCEPT !.approximate_size = m.approximate_size + EstimatedSize(key, value)]

\* a put that takes its entry and its bytes back when the log append fails
MemTablePutRolledBack(m, key, value) ==
    [m EXCEPT !.map = [k \in DOMAIN m.map \ {key} |-> m.map[k]],
              !.approximate_size = m.approximate_size - EstimatedSize(key, value)]

\* MemTable::put, wal.put(key, value)? returning the Err: the entry inserted and
\* the bytes added before the append stay as they are
MemTablePutFailed(m, key, value) == m

\* MemTable::approximate_size
ApproximateSize(m) == m.approximate_size

(***************************************************************************)
(* lsm_storage.rs: the state and the read path                             *)
(***************************************************************************)
\* CompactionOptions
NoCompaction == [kind |-> "NoCompaction", max_levels |-> 0]

\* CompactionOptions::Leveled, CompactionOptions::Simple, CompactionOptions::Tiered
Leveled(max_levels) == [kind |-> "Leveled", max_levels |-> max_levels]
Simple(max_levels) == [kind |-> "Simple", max_levels |-> max_levels]
Tiered == [kind |-> "Tiered", max_levels |-> 0]

\* LsmStorageOptions of the engine under test
EngineOptions(enable_wal) ==
    [target_sst_size |-> TargetSstSize, enable_wal |-> enable_wal,
     num_memttable_limit |-> NumMemtableLimit,
     compaction_options |-> NoCompaction]

\* a create that numbers the level buckets from 0
LsmStorageStateCreateFromZero(option, mt) ==
    [memtable |-> mt,
     imm_memtable |-> <<>>,
     l0_sstable |-> <<>>,
     levels |-> IF option.compaction_options.kind \in {"Leveled", "Simple"}
                THEN [l \in 1..option.compaction_options.max_levels |-> <<l - 1, <<>>>>]
                ELSE <<>>,
     sstables |-> {}]

\* LsmStorageState::create; the mem-table it creates is put at address mt
LsmStorageStateCreate(option, mt) ==
    [memtable |-> mt,
     imm_memtable |-> <<>>,
     l0_sstable |-> <<>>,
     levels |-> IF option.compaction_options.kind \in {"Leveled", "Simple"}
                THEN [l \in 1..option.compaction_options.max_levels |-> <<l, <<>>>>]
                ELSE <<>>,
     sstables |-> {}]

\* test_minilsm_open: next_sst_id is 0 once the engine is open
InitNextSstId == 0

\* a found value handed to the caller as it is
GetFoundRaw(value) == Some(value)

\* LsmStorageInner::get, on a value found in a mem-table: a tombstone is absent
GetFound(value) == IF value = EmptyBytes THEN None ELSE Some(value)

\* LsmStorageInner::get, the loop over snapshot.imm_memtable
RECURSIVE GetImm(_, _, _)
GetImm(heap, imm, key) ==
    IF imm = <<>> THEN None
    ELSE LET found == MemTableGet(heap[Head(imm)], key)
         IN IF found.some THEN GetFound(found.val)
            ELSE GetImm(heap, Tail(imm), key)

\* LsmStorageInner::get, after the snapshot is taken
LsmGet(heap, snapshot, key) ==
    LET found == MemTableGet(heap[snapshot.memtable], key)
    IN IF found.some THEN GetFound(found.val)
       ELSE GetImm(heap, snapshot.imm_memtable, key)

(***************************************************************************)
(* lsm_storage.rs: the write path                                          *)
(***************************************************************************)
\* the assert! of write_batch for one record
RecordAsserts(rec) ==
    /\ rec.key # EmptyBytes
    /\ rec.kind = "Put" => rec.value # EmptyBytes

\* a second look that takes the caller's estimate for the current size
TryFreezeNoRecheck(estimated_size, current_size, target) == estimated_size >= target

\* a second look that lets a mem-table of exactly the target size pass
TryFreezeStrict(estimated_size, current_size, target) == current_size > target

\* try_freeze, under state_lock: the size of the current mem-table is looked at again
TryFreezeRecheck(estimated_size, current_size, target) == current_size >= target

\* the old mem-table put at the back of the list
ImmPushBack(imm, old_memtable) == Append(imm, old_memtable)

\* freeze_memtable_with_memtable: snapshot.imm_memtable.insert(0, old_memtable)
ImmInsertFront(imm, old_memtable) == <<old_memtable>> \o imm

\* a new state value built afresh around the two mem-table fields
FreezeStateRebuilt(snapshot, memtable) ==
    [memtable |-> memtable,
     imm_memtable |-> ImmInsertFront(snapshot.imm_memtable, snapshot.memtable),
     l0_sstable |-> <<>>,
     levels |-> <<>>,
     sstables |-> {}]

\* freeze_memtable_with_memtable: the new state value
FreezeState(snapshot, memtable) ==
    [snapshot EXCEPT !.memtable = memtable,
                     !.imm_memtable = ImmInsertFront(snapshot.imm_memtable, snapshot.memtable)]

IdleWriter ==
    [pc |-> "idle", batch |-> <<>>, mt |-> 0, size |-> 0, new_mt |-> 0,
     res |-> "none"]

IdleReader ==
    [pc |-> "idle", key |-> EmptyBytes, snapshot |-> 0, res |-> None,
     seen |-> {}, done |-> FALSE]

\* the record of the batch a writer is at
Rec(t) == Head(wr[t].batch)

\* write_batch: one record is done (its try_freeze returned Ok), on to the next
\* record, or return Ok(()) after the last
RecordDone(w) ==
    IF Len(w.batch) > 1
    THEN [w EXCEPT !.pc = "record", !.batch = Tail(w.batch)]
    ELSE [IdleWriter EXCEPT !.res = "ok"]

\* a loop body that clones the pointer and drops the read guard before the put
BeginRecordNoGuard(t, w) ==
    IF RecordAsserts(Head(w.batch))
    THEN /\ UNCHANGED read_guards
         /\ wr' = [wr EXCEPT ![t] = [w EXCEPT !.pc = "insert", !.mt = state.memtable]]
    ELSE /\ wr' = [wr EXCEPT ![t] = [w EXCEPT !.pc = "panicked", !.res = "panic"]]
         /\ UNCHANGED read_guards

\* write_batch, the head of the loop body for the record at the front of w.batch:
\* the asserts, then state.read()
BeginRecord(t, w) ==
    IF RecordAsserts(Head(w.batch))
    THEN /\ read_guards' = read_guards \cup {t}
         /\ wr' = [wr EXCEPT ![t] = [w EXCEPT !.pc = "insert", !.mt = state.memtable]]
    ELSE /\ wr' = [wr EXCEPT ![t] = [w EXCEPT !.pc = "panicked", !.res = "panic"]]
         /\ UNCHANGED read_guards

\* write_batch / put / delete is called and reaches its first record
Call(t, batch) ==
    /\ wr[t].pc = "idle"
    /\ ops + Len(batch) <= MaxOps
    /\ ops' = ops + Len(batch)
    /\ BeginRecord(t, [IdleWriter EXCEPT !.batch = batch])
    /\ UNCHANGED <<mems, files, state, next_sst_id, options, state_lock,
                   rd, last, bytes_put, old_state, skipped, api, wal_owner, lsm>>

\* LsmStorageInner::put
LsmPut(t) == \E k \in KeyInputs, v \in ValueInputs : Call(t, <<Put(k, v)>>)

\* LsmStorageInner::delete
LsmDelete(t) == \E k \in KeyInputs : Call(t, <<Del(k)>>)

\* LsmStorageInner::write_batch with several records
LsmWriteBatch(t) == \E b \in Batches : Call(t, b)

\* write_batch: the next record of the batch
RecordBegin(t) ==
    /\ wr[t].pc = "record"
    /\ BeginRecord(t, wr[t])
    /\ UNCHANGED <<mems, files, state, next_sst_id, options, state_lock,
                   rd, ops, last, bytes_put, old_state, skipped, api, wal_owner, lsm>>

\* MemTable::put under the read guard: map.insert
PutInsert(t) ==
    /\ wr[t].pc = "insert"
    /\ LET rec == Rec(t) IN
       /\ mems' = [mems EXCEPT ![wr[t].mt] = MemTablePutInsert(@, rec.key, rec.value)]
       /\ last' = [last EXCEPT ![rec.key] = Some(rec.value)]
       /\ bytes_put' = [bytes_put EXCEPT ![wr[t].mt] = @ + Len(rec.key) + Len(rec.value)]
       /\ rd' = [r \in Readers |->
                   IF rd[r].pc = "lookup" /\ rd[r].key = rec.key
                   THEN [rd[r] EXCEPT !.seen = @ \cup {Some(rec.value)}]
                   ELSE rd[r]]
    /\ wr' = [wr EXCEPT ![t].pc = "fetch_add"]
    /\ UNCHANGED <<files, state, next_sst_id, options, state_lock, read_guards,
                   ops, old_state, skipped, api, wal_owner, lsm>>

\* MemTable::put under the read guard: approximate_size.fetch_add
PutFetchAdd(t) ==
    /\ wr[t].pc = "fetch_add"
    /\ mems' = [mems EXCEPT ![wr[t].mt] = MemTablePutFetchAdd(@, Rec(t).key, Rec(t).value)]
    /\ wr' = [wr EXCEPT ![t].pc = IF mems[wr[t].mt].wal # <<>> THEN "wal_put" ELSE "load_size"]
    /\ UNCHANGED <<files, state, next_sst_id, options, state_lock, read_guards,
                   rd, ops, last, bytes_put, old_state, skipped, api, wal_owner, lsm>>

\* MemTable::put under the read guard: wal.put(key, value)?
PutWal(t) ==
    /\ wr[t].pc = "wal_put"
    /\ LET r == WalPut(files, mems[wr[t].mt].wal[1], Rec(t).key, Rec(t).value) IN
       /\ files' = r.fs
       /\ IF r.ok
          THEN /\ wr' = [wr EXCEPT ![t].pc = "load_size"]
               /\ UNCHANGED read_guards
          ELSE /\ wr' = [wr EXCEPT ![t] = [IdleWriter EXCEPT !.res = "err"]]
               /\ read_guards' = read_guards \ {t}
    /\ UNCHANGED <<mems, state, next_sst_id, options, state_lock,
                   rd, ops, last, bytes_put, old_state, skipped, api, wal_owner, lsm>>

\* MemTable::put under the read guard: wal.put(key, value)? when the append
\* fails. put returns the Err, write_batch returns it to its caller (the rest
\* of the batch is not applied) and the read guard is dropped. The writer's
\* record keeps the failed record and its mem-table.
PutWalFails(t) ==
    /\ wr[t].pc = "wal_put"
    /\ LET r == WalPutIoError(files, mems[wr[t].mt].wal[1], Rec(t).key, Rec(t).value) IN
       /\ ~r.ok
       /\ files' = r.fs
       /\ mems' = [mems EXCEPT ![wr[t].mt] = MemTablePutFailed(@, Rec(t).key, Rec(t).value)]
       /\ wr' = [wr EXCEPT ![t] = [IdleWriter EXCEPT !.res = "err",
                                                     !.batch = <<Rec(t)>>,
                                                     !.mt = wr[t].mt]]
       /\ read_guards' = read_guards \ {t}
    /\ UNCHANGED <<state, next_sst_id, options, state_lock,
                   rd, ops, last, bytes_put, old_state, skipped, api, wal_owner, lsm>>

\* a loop body that calls try_freeze inside the block of the read guard: the
\* guard is kept while the writer goes for state_lock
LoadSizeKeepGuard(t) ==
    /\ wr[t].pc = "load_size"
    /\ LET size == ApproximateSize(mems[wr[t].mt])
           w == [wr[t] EXCEPT !.size = size]
       IN IF size >= options.target_sst_size
          THEN /\ wr' = [wr EXCEPT ![t] = [w EXCEPT !.pc = "state_lock"]]
               /\ UNCHANGED read_guards
          ELSE /\ wr' = [wr EXCEPT ![t] = RecordDone(w)]
               /\ read_guards' = read_guards \ {t}
    /\ UNCHANGED <<mems, files, state, next_sst_id, options, state_lock,
                   rd, ops, last, bytes_put, old_state, skipped, api, wal_owner, lsm>>

\* write_batch: size = guard.memtable.approximate_size(), the guard is dropped,
\* and try_freeze(size) compares the estimate with target_sst_size
LoadSize(t) ==
    /\ wr[t].pc = "load_size"
    /\ read_guards' = read_guards \ {t}
    /\ LET size == ApproximateSize(mems[wr[t].mt])
           w == [wr[t] EXCEPT !.size = size]
       IN wr' = [wr EXCEPT ![t] = IF size >= options.target_sst_size
                                  THEN [w EXCEPT !.pc = "state_lock"]
                                  ELSE RecordDone(w)]
    /\ UNCHANGED <<mems, files, state, next_sst_id, options, state_lock,
                   rd, ops, last, bytes_put, old_state, skipped, api, wal_owner, lsm>>

\* try_freeze: self.state_lock.lock(), then state.read(), the second look at the
\* size of the current mem-table, and the read guard dropped. Taking the lock
\* commutes with the steps of the other threads, so it is one step with the look.
TryFreezeCheck(t) ==
    /\ wr[t].pc = "state_lock"
    /\ state_lock = 0
    /\ IF TryFreezeRecheck(wr[t].size, ApproximateSize(mems[state.memtable]),
                           options.target_sst_size)
       THEN /\ wr' = [wr EXCEPT ![t].pc = "force_freeze"]
            /\ state_lock' = t
            /\ UNCHANGED skipped
       ELSE /\ wr' = [wr EXCEPT ![t] = RecordDone(wr[t])]
            /\ state_lock' = 0
            /\ skipped' = skipped \cup {wr[t].mt}
    /\ UNCHANGED <<mems, files, state, next_sst_id, options, read_guards,
                   rd, ops, last, bytes_put, old_state, api, wal_owner, lsm>>

\* force_freeze_memtable: next_sst_id() and the new mem-table
ForceFreeze(t) ==
    /\ wr[t].pc = "force_freeze"
    /\ next_sst_id' = next_sst_id + 1
    /\ LET memtable_id == next_sst_id
           path == path_of_wal(memtable_id)
           created == WalCreate(files, path)
       IN IF options.enable_wal /\ ~created.ok
          THEN \* MemTable::create_with_wal(..)? returns the error
               /\ wr' = [wr EXCEPT ![t] = [IdleWriter EXCEPT !.res = "err"]]
               /\ state_lock' = 0
               /\ UNCHANGED <<mems, files, bytes_put>>
          ELSE /\ mems' = Append(mems, IF options.enable_wal
                                       THEN MemTableCreateWithWal(memtable_id, path)
                                       ELSE MemTableCreate(memtable_id))
               /\ files' = IF options.enable_wal THEN created.fs ELSE files
               /\ bytes_put' = Append(bytes_put, 0)
               /\ wr' = [wr EXCEPT ![t].pc = "install", ![t].new_mt = Len(mems) + 1]
               /\ UNCHANGED state_lock
    /\ UNCHANGED <<state, options, read_guards, rd, ops, last, old_state, skipped, api, wal_owner, lsm>>

\* a swap of the pointer that does not wait for the read guards
FreezeInstallNoWait(t) ==
    /\ wr[t].pc = "install"
    /\ state' = FreezeState(state, wr[t].new_mt)
    /\ old_state' = state
    /\ state_lock' = 0
    /\ wr' = [wr EXCEPT ![t] = RecordDone(wr[t])]
    /\ UNCHANGED <<mems, files, next_sst_id, options, read_guards,
                   rd, ops, last, bytes_put, skipped, api, wal_owner, lsm>>

\* freeze_memtable_with_memtable: state.write(), the swap, the guards dropped
FreezeInstall(t) ==
    /\ wr[t].pc = "install"
    /\ read_guards = {}
    /\ state' = FreezeState(state, wr[t].new_mt)
    /\ old_state' = state
    /\ state_lock' = 0
    /\ wr' = [wr EXCEPT ![t] = RecordDone(wr[t])]
    /\ UNCHANGED <<mems, files, next_sst_id, options, read_guards,
                   rd, ops, last, bytes_put, skipped, api, wal_owner, lsm>>

\* LsmStorageInner::get: the snapshot is cloned under state.read()
GetSnapshot(r) ==
    /\ rd[r].pc = "idle"
    /\ \E k \in Keys :
         rd' = [rd EXCEPT ![r] = [pc |-> "lookup", key |-> k, snapshot |-> state,
                                  res |-> None, seen |-> {last[k]}, done |-> FALSE]]
    /\ UNCHANGED <<mems, files, state, next_sst_id, options, state_lock, read_guards,
                   wr, ops, last, bytes_put, old_state, skipped, api, wal_owner, lsm>>

\* LsmStorageInner::get: the search of the snapshot
GetLookup(r) ==
    /\ rd[r].pc = "lookup"
    /\ rd' = [rd EXCEPT ![r].pc = "idle", ![r].done = TRUE,
                        ![r].res = LsmGet(mems, rd[r].snapshot, rd[r].key)]
    /\ UNCHANGED <<mems, files, state, next_sst_id, options, state_lock, read_guards,
                   wr, ops, last, bytes_put, old_state, skipped, api, wal_owner, lsm>>

\* WAL files found in the engine's directory when it is opened
InitialWalIds == {{}, {1}}

\* MiniLsm after open: both worker threads spawned and waiting, nothing sent
OpenLsm ==
    [phase |-> "open", closes |-> 0,
     flush_thread |-> "wait", compaction_thread |-> "wait",
     flush_rx |-> 0, compaction_rx |-> 0]

NoCall == [op |-> "none", id |-> 0, path |-> <<>>, ok |-> TRUE, mt |-> 0, existed |-> FALSE]

Init ==
    /\ \E enable_wal \in BOOLEAN, ids \in InitialWalIds :
         /\ enable_wal <=> ids # {}
         /\ options = EngineOptions(enable_wal)
         /\ files = [p \in {path_of_wal(i) : i \in ids} |-> <<>>]
    /\ mems = <<MemTableCreate(0)>>
    /\ state = LsmStorageStateCreate(options, 1)
    /\ next_sst_id = InitNextSstId
    /\ state_lock = 0
    /\ read_guards = {}
    /\ wr = [t \in Writers |-> IdleWriter]
    /\ rd = [r \in Readers |-> IdleReader]
    /\ ops = 0
    /\ last = [k \in Keys |-> None]
    /\ bytes_put = <<0>>
    /\ old_state = state
    /\ skipped = {}
    /\ api = NoCall
    /\ wal_owner = <<>>
    /\ lsm = OpenLsm

Next ==
    \/ \E t \in Writers :
         \/ LsmPut(t)
         \/ LsmDelete(t)
         \/ LsmWriteBatch(t)
         \/ RecordBegin(t)
         \/ PutInsert(t)
         \/ PutFetchAdd(t)
         \/ PutWal(t)
         \/ LoadSize(t)
         \/ TryFreezeCheck(t)
         \/ ForceFreeze(t)
         \/ FreezeInstall(t)
    \/ \E r \in Readers :
         \/ GetSnapshot(r)
         \/ GetLookup(r)

Spec == Init /\ [][Next]_vars

\* the steps of one thread
WriterStep(t) ==
    \/ LsmPut(t)
    \/ LsmDelete(t)
    \/ LsmWriteBatch(t)
    \/ RecordBegin(t)
    \/ PutInsert(t)
    \/ PutFetchAdd(t)
    \/ PutWal(t)
    \/ LoadSize(t)
    \/ TryFreezeCheck(t)
    \/ ForceFreeze(t)
    \/ FreezeInstall(t)

ReaderStep(r) == GetSnapshot(r) \/ GetLookup(r)

\* the engine with every thread scheduled again and again: a thread that can
\* take a step takes one
FairSpec ==
    /\ Init
    /\ [][Next]_vars
    /\ \A t \in Writers : WF_vars(WriterStep(t))
    /\ \A r \in Readers : WF_vars(ReaderStep(r))

\* the engine's writers on a disk whose log appends can fail
WalFailNext ==
    \E t \in Writers :
       \/ WriterStep(t)
       \/ PutWalFails(t)

WalFailSpec == Init /\ [][WalFailNext]_vars

(***************************************************************************)
(* MemSpec: the mem-table API with a WAL, called by one thread              *)
(***************************************************************************)
MemIds == {0, 1}
Paths == {path_of_wal(i) : i \in MemIds}

Called(op, id, path, ok, mt) ==
    [op |-> op, id |-> id, path |-> path, ok |-> ok, mt |-> mt,
     existed |-> path \in DOMAIN files]

\* MemTable::create_with_wal(id, path)
MemCreateWithWal(id, path) ==
    /\ ops < MaxMemCalls
    /\ ops' = ops + 1
    /\ LET created == WalCreate(files, path) IN
       IF created.ok
       THEN /\ files' = created.fs
            /\ mems' = Append(mems, MemTableCreateWithWal(id, path))
            /\ bytes_put' = Append(bytes_put, 0)
            /\ wal_owner' = [p \in DOMAIN wal_owner \cup {path} |->
                               IF p = path THEN Len(mems) + 1 ELSE wal_owner[p]]
            /\ api' = Called("create_with_wal", id, path, TRUE, Len(mems) + 1)
       ELSE /\ api' = Called("create_with_wal", id, path, FALSE, 0)
            /\ UNCHANGED <<files, mems, bytes_put, wal_owner>>
    /\ UNCHANGED <<state, next_sst_id, options, state_lock, read_guards, wr, rd,
                   last, old_state, skipped, lsm>>

\* MemTable::recover_with_wal(id, path)
MemRecoverWithWal(id, path) ==
    /\ ops < MaxMemCalls
    /\ ops' = ops + 1
    /\ LET recovered == WalRecover(files, path, EmptyMap) IN
       IF recovered.ok
       THEN /\ files' = recovered.fs
            /\ mems' = Append(mems, MemTableRecoverWithWal(id, path, recovered.map))
            /\ bytes_put' = Append(bytes_put, 0)
            /\ api' = Called("recover_with_wal", id, path, TRUE, Len(mems) + 1)
       ELSE /\ api' = Called("recover_with_wal", id, path, FALSE, 0)
            /\ UNCHANGED <<files, mems, bytes_put>>
    /\ UNCHANGED <<state, next_sst_id, options, state_lock, read_guards, wr, rd,
                   last, old_state, skipped, wal_owner, lsm>>

\* MemTable::put(key, value) on the mem-table at address a; a delete is a put of
\* the empty value
MemPut(a, key, value) ==
    /\ ops < MaxMemCalls
    /\ ops' = ops + 1
    /\ LET m == MemTablePutFetchAdd(MemTablePutInsert(mems[a], key, value), key, value)
           logged == IF m.wal # <<>> THEN WalPut(files, m.wal[1], key, value)
                     ELSE [ok |-> TRUE, fs |-> files]
       IN /\ mems' = [mems EXCEPT ![a] = m]
          /\ files' = logged.fs
          /\ api' = Called("put", m.id, IF m.wal # <<>> THEN m.wal[1] ELSE <<>>, logged.ok, a)
    /\ bytes_put' = [bytes_put EXCEPT ![a] = @ + Len(key) + Len(value)]
    /\ UNCHANGED <<state, next_sst_id, options, state_lock, read_guards, wr, rd,
                   last, old_state, skipped, wal_owner, lsm>>

\* std::fs::remove_file(path), as the tests do
RemoveFile(path) ==
    /\ ops < MaxMemCalls
    /\ ops' = ops + 1
    /\ path \in DOMAIN files
    /\ files' = [p \in DOMAIN files \ {path} |-> files[p]]
    /\ wal_owner' = [p \in DOMAIN wal_owner \ {path} |-> wal_owner[p]]
    /\ api' = Called("remove_file", 0, path, TRUE, 0)
    /\ UNCHANGED <<mems, state, next_sst_id, options, state_lock, read_guards, wr, rd,
                   last, bytes_put, old_state, skipped, lsm>>

MemInit ==
    /\ mems = <<>>
    /\ files = <<>>
    /\ options = EngineOptions(TRUE)
    /\ state = LsmStorageStateCreate(options, 0)
    /\ next_sst_id = InitNextSstId
    /\ state_lock = 0
    /\ read_guards = {}
    /\ wr = [t \in Writers |-> IdleWriter]
    /\ rd = [r \in Readers |-> IdleReader]
    /\ ops = 0
    /\ last = [k \in Keys |-> None]
    /\ bytes_put = <<>>
    /\ old_state = state
    /\ skipped = {}
    /\ api = NoCall
    /\ wal_owner = <<>>
    /\ lsm = OpenLsm

MemNext ==
    \/ \E id \in MemIds, path \in Paths : MemCreateWithWal(id, path)
    \/ \E id \in MemIds, path \in Paths : MemRecoverWithWal(id, path)
    \/ \E a \in 1..Len(mems), k \in Keys, v \in ValueInputs : MemPut(a, k, v)
    \/ \E path \in Paths : RemoveFile(path)

MemSpec == MemInit /\ [][MemNext]_vars

(***************************************************************************)
(* LifeSpec: the MiniLsm handle and its two worker threads                  *)
(***************************************************************************)
\* a worker thread wakes (timer or channel): it takes a stop message, or finds
\* its channel disconnected, and exits; otherwise it starts a round of work
WorkerWake(thread, rx) ==
    /\ lsm[thread] = "wait"
    /\ IF lsm[rx] > 0
       THEN lsm' = [lsm EXCEPT ![thread] = "exited", ![rx] = @ - 1]
       ELSE IF lsm.phase = "dropped"
            THEN lsm' = [lsm EXCEPT ![thread] = "exited"]
            ELSE lsm' = [lsm EXCEPT ![thread] = "work"]
    /\ UNCHANGED <<mems, files, state, next_sst_id, options, state_lock, read_guards,
                   wr, rd, ops, last, bytes_put, old_state, skipped, api, wal_owner>>

\* a worker thread finishes its round of work and waits again
WorkerDone(thread) ==
    /\ lsm[thread] = "work"
    /\ lsm' = [lsm EXCEPT ![thread] = "wait"]
    /\ UNCHANGED <<mems, files, state, next_sst_id, options, state_lock, read_guards,
                   wr, rd, ops, last, bytes_put, old_state, skipped, api, wal_owner>>

FlushWorker == WorkerWake("flush_thread", "flush_rx") \/ WorkerDone("flush_thread")

CompactionWorker ==
    WorkerWake("compaction_thread", "compaction_rx") \/ WorkerDone("compaction_thread")

\* MiniLsm::close: returns Ok(()) and does nothing else
Close ==
    /\ lsm.phase = "open"
    /\ lsm.closes < MaxCloses
    /\ lsm' = [lsm EXCEPT !.closes = @ + 1]
    /\ UNCHANGED <<mems, files, state, next_sst_id, options, state_lock, read_guards,
                   wr, rd, ops, last, bytes_put, old_state, skipped, api, wal_owner>>

\* Drop for MiniLsm, first statement: compaction_notifier.send(())
DropSendCompaction ==
    /\ lsm.phase = "open"
    /\ lsm' = [lsm EXCEPT !.phase = "dropping", !.compaction_rx = @ + 1]
    /\ UNCHANGED <<mems, files, state, next_sst_id, options, state_lock, read_guards,
                   wr, rd, ops, last, bytes_put, old_state, skipped, api, wal_owner>>

\* Drop for MiniLsm, second statement: flush_notifier.send(())
DropSendFlush ==
    /\ lsm.phase = "dropping"
    /\ lsm' = [lsm EXCEPT !.phase = "sent", !.flush_rx = @ + 1]
    /\ UNCHANGED <<mems, files, state, next_sst_id, options, state_lock, read_guards,
                   wr, rd, ops, last, bytes_put, old_state, skipped, api, wal_owner>>

\* after Drop::drop the fields are dropped: the senders disconnect and the join
\* handles detach the threads, which are not joined
DropFields ==
    /\ lsm.phase = "sent"
    /\ lsm' = [lsm EXCEPT !.phase = "dropped"]
    /\ UNCHANGED <<mems, files, state, next_sst_id, options, state_lock, read_guards,
                   wr, rd, ops, last, bytes_put, old_state, skipped, api, wal_owner>>

LifeInit == MemInit

LifeNext ==
    \/ Close
    \/ DropSendCompaction
    \/ DropSendFlush
    \/ DropFields
    \/ FlushWorker
    \/ CompactionWorker

LifeSpec == LifeInit /\ [][LifeNext]_vars

(***************************************************************************)
(* CreateSpec: the engine created with each of the compaction options, then *)
(* written to by the writer threads                                        *)
(***************************************************************************)
\* the compaction options LsmStorageState::create is called with
CompactionOptionsSet ==
    {NoCompaction, Tiered}
      \cup {Leveled(n) : n \in 0..MaxLevels} \cup {Simple(n) : n \in 0..MaxLevels}

CreateInit ==
    /\ \E enable_wal \in BOOLEAN, ids \in InitialWalIds, c \in CompactionOptionsSet :
         /\ enable_wal <=> ids # {}
         /\ options = [EngineOptions(enable_wal) EXCEPT !.compaction_options = c]
         /\ files = [p \in {path_of_wal(i) : i \in ids} |-> <<>>]
    /\ mems = <<MemTableCreate(0)>>
    /\ state = LsmStorageStateCreate(options, 1)
    /\ next_sst_id = InitNextSstId
    /\ state_lock = 0
    /\ read_guards = {}
    /\ wr = [t \in Writers |-> IdleWriter]
    /\ rd = [r \in Readers |-> IdleReader]
    /\ ops = 0
    /\ last = [k \in Keys |-> None]
    /\ bytes_put = <<0>>
    /\ old_state = state
    /\ skipped = {}
    /\ api = NoCall
    /\ wal_owner = <<>>
    /\ lsm = OpenLsm

CreateNext ==
    \E t \in Writers :
       \/ LsmPut(t)
       \/ LsmDelete(t)
       \/ LsmWriteBatch(t)
       \/ RecordBegin(t)
       \/ PutInsert(t)
       \/ PutFetchAdd(t)
       \/ PutWal(t)
       \/ LoadSize(t)
       \/ TryFreezeCheck(t)
       \/ ForceFreeze(t)
       \/ FreezeInstall(t)

CreateSpec == CreateInit /\ [][CreateNext]_vars

(***************************************************************************)
(* Properties of the engine (Spec)                                         *)
(***************************************************************************)
\* the mem-tables of the published state, newest first
Chain == <<state.memtable>> \o state.imm_memtable

\* what get owes the caller for the last value applied to a key
Visible(o) == IF o.some /\ o.val = EmptyBytes THEN None ELSE o

IsValue(o) == o.some /\ o.val # EmptyBytes

\* C1: read-your-writes across freezes. While the last write applied to a key is
\* a put of a non-empty value v, a get of the key on the published state gives
\* v, whatever the number of freezes since; and a get call during which the key
\* held only non-empty values returns one of them (v itself when no write to the
\* key was applied during the call).
C1_ReadYourWrites ==
    /\ \A k \in Keys : IsValue(last[k]) => LsmGet(mems, state, k) = last[k]
    /\ \A r \in Readers :
         (rd[r].done /\ \A o \in rd[r].seen : IsValue(o)) => rd[r].res \in rd[r].seen

\* a get returned the value of a put that lies in the oldest of two frozen
\* mem-tables
C1_Witness ==
    \E r \in Readers :
       /\ rd[r].done
       /\ IsValue(rd[r].res)
       /\ rd[r].seen = {rd[r].res}
       /\ Len(rd[r].snapshot.imm_memtable) >= 2
       /\ rd[r].key \notin DOMAIN mems[rd[r].snapshot.memtable].map
       /\ rd[r].key \notin DOMAIN mems[rd[r].snapshot.imm_memtable[1]].map

\* the mem-tables of the published state that hold the key
Holding(k) == {i \in 1..Len(Chain) : k \in DOMAIN mems[Chain[i]].map}

\* C2: delete wins over older data. While the last write applied to a key is a
\* delete, get gives absent although older mem-tables hold values of the key;
\* get answers from the first mem-table holding the key in the order active,
\* then frozen newest first (the one allocated last), and an empty value is
\* never returned to the caller.
C2_DeleteWins ==
    /\ \A k \in Keys : last[k] = Some(EmptyBytes) => LsmGet(mems, state, k) = None
    /\ \A k \in Keys :
         /\ LsmGet(mems, state, k) # Some(EmptyBytes)
         /\ Holding(k) # {} =>
              LET newest == CHOOSE i \in Holding(k) : \A j \in Holding(k) : Chain[j] <= Chain[i]
              IN LsmGet(mems, state, k) = Visible(Some(mems[Chain[newest]].map[k]))
    /\ \A r \in Readers :
         rd[r].done =>
           /\ rd[r].res # Some(EmptyBytes)
           /\ rd[r].seen = {Some(EmptyBytes)} => rd[r].res = None

\* a get returned absent for a deleted key of which a frozen mem-table still
\* holds a non-empty value
C2_Witness ==
    \E r \in Readers :
       /\ rd[r].done
       /\ rd[r].res = None
       /\ rd[r].seen = {Some(EmptyBytes)}
       /\ \E i \in 1..Len(rd[r].snapshot.imm_memtable) :
            LET m == mems[rd[r].snapshot.imm_memtable[i]]
            IN rd[r].key \in DOMAIN m.map /\ m.map[rd[r].key] # EmptyBytes

\* C3: a key no put or delete was ever applied to is absent, after any writes
\* to other keys and any freezes.
C3_UnwrittenAbsent ==
    /\ \A k \in Keys : last[k] = None => LsmGet(mems, state, k) = None
    /\ \A r \in Readers : (rd[r].done /\ rd[r].seen = {None}) => rd[r].res = None

\* a get of a key never written returned absent, with another key written and
\* frozen
C3_Witness ==
    \E r \in Readers :
       /\ rd[r].done
       /\ rd[r].res = None
       /\ last[rd[r].key] = None
       /\ Len(rd[r].snapshot.imm_memtable) >= 1
       /\ \E k \in Keys : k \in DOMAIN mems[rd[r].snapshot.imm_memtable[1]].map

NoDup(s) == \A i, j \in 1..Len(s) : s[i] = s[j] => i = j

Occurrences(s, x) == Cardinality({i \in 1..Len(s) : s[i] = x})

\* C4: freeze is idempotent under race. No mem-table is twice in the published
\* state; a mem-table that a writer saw at or above target_sst_size, and whose
\* freeze the writer's second look declined, is in the frozen list exactly once
\* and is not the active one; and there are never more frozen mem-tables than
\* mem-tables that reached target_sst_size (one new active mem-table for each).
C4_FreezeOnce ==
    /\ NoDup(Chain)
    /\ \A m \in skipped :
         /\ Occurrences(state.imm_memtable, m) = 1
         /\ state.memtable # m
    /\ Len(state.imm_memtable) <=
         Cardinality({a \in 1..Len(mems) :
                        ApproximateSize(mems[a]) >= options.target_sst_size})

\* two writers saw the same mem-table full; one froze it, the other declined
C4_Witness ==
    \E m \in skipped :
       /\ Occurrences(state.imm_memtable, m) = 1
       /\ \A t \in Writers : wr[t].pc = "idle"

\* C5: mem-table ids are unique and increase with recency. In the published
\* state the ids strictly decrease from the active mem-table through the frozen
\* list, front to back, and no two mem-tables ever created share an id.
C5_IdsUniqueIncreasing ==
    /\ \A i, j \in 1..Len(Chain) : i < j => mems[Chain[i]].id > mems[Chain[j]].id
    /\ \A a, b \in 1..Len(mems) : a # b => mems[a].id # mems[b].id

\* C6: a put whose key or value is empty returns an error to its caller, and
\* the call leaves the mem-tables, the published state and the id counter as
\* they were.
C6_EmptyPutInvalidArgument ==
    [][\A t \in Writers :
         (/\ wr[t].pc = "idle"
          /\ wr'[t].batch # <<>>
          /\ ~RecordAsserts(Head(wr'[t].batch)))
         => (/\ wr'[t].pc = "idle"
             /\ wr'[t].res = "err"
             /\ mems' = mems
             /\ state' = state
             /\ next_sst_id' = next_sst_id)]_vars

\* bytes of the puts of the threads in S that are in a mem-table's map and not
\* yet in its counter
RECURSIVE PendingBytes(_, _)
PendingBytes(S, a) ==
    IF S = {} THEN 0
    ELSE LET t == CHOOSE x \in S : TRUE
         IN (IF wr[t].pc = "fetch_add" /\ wr[t].mt = a
             THEN Len(Rec(t).key) + Len(Rec(t).value) ELSE 0)
            + PendingBytes(S \ {t}, a)

C9_SizeIsSum ==
    \A a \in 1..Len(mems) :
       ApproximateSize(mems[a]) + PendingBytes(Writers, a) = bytes_put[a]

\* C9: approximate_size is 0 for a new mem-table, is the sum of key length +
\* value length over the puts applied to the mem-table (those between their
\* insert and their fetch_add set aside), overwrites and tombstones included,
\* and no step of any interleaving decreases it.
C9_ApproximateSize ==
    /\ []C9_SizeIsSum
    /\ [][\A a \in 1..Len(mems) :
            ApproximateSize(mems'[a]) >= ApproximateSize(mems[a])]_vars

RECURSIVE MapBytes(_, _)
MapBytes(map, S) ==
    IF S = {} THEN 0
    ELSE LET k == CHOOSE x \in S : TRUE
         IN Len(k) + Len(map[k]) + MapBytes(map, S \ {k})

\* a mem-table with no put in flight that holds a tombstone and whose counter
\* exceeds the bytes of its map: an entry was overwritten
C9_Witness ==
    \E a \in 1..Len(mems) :
       /\ PendingBytes(Writers, a) = 0
       /\ ApproximateSize(mems[a]) = bytes_put[a]
       /\ ApproximateSize(mems[a]) > MapBytes(mems[a].map, DOMAIN mems[a].map)
       /\ \E k \in DOMAIN mems[a].map : mems[a].map[k] = EmptyBytes

\* C12: flush drains oldest-first. Whenever the published state has more than
\* num_memttable_limit frozen mem-tables, a later published state has one more
\* L0 file; and every transition that changes the L0 list or shortens the
\* frozen list removes exactly the back of the frozen list and prepends exactly
\* one new file id to l0_sstable.
C12_FlushDrains ==
    /\ [][(state'.l0_sstable # state.l0_sstable
            \/ Len(state'.imm_memtable) < Len(state.imm_memtable))
          => /\ state.imm_memtable # <<>>
             /\ state'.imm_memtable
                  = SubSeq(state.imm_memtable, 1, Len(state.imm_memtable) - 1)
             /\ Len(state'.l0_sstable) = Len(state.l0_sstable) + 1
             /\ Tail(state'.l0_sstable) = state.l0_sstable
             /\ \A i \in 1..Len(state.l0_sstable) :
                  state.l0_sstable[i] # Head(state'.l0_sstable)]_vars
    /\ \A n \in 0..MaxOps :
         (Len(state.imm_memtable) > options.num_memttable_limit
            /\ Len(state.l0_sstable) = n)
         ~> (Len(state.l0_sstable) = n + 1)

\* C13: a frozen mem-table is read-only. No step of any thread changes the map
\* or the approximate size of a mem-table that is in the frozen list, and no
\* put that is between its start and its fetch_add works on a mem-table other
\* than the active one.
C13_FrozenReadOnly ==
    /\ [](\A t \in Writers :
            wr[t].pc \in {"insert", "fetch_add"} => wr[t].mt = state.memtable)
    /\ [][\A i \in 1..Len(state.imm_memtable) :
            LET a == state.imm_memtable[i]
            IN /\ mems'[a].map = mems[a].map
               /\ ApproximateSize(mems'[a]) = ApproximateSize(mems[a])]_vars

\* a frozen mem-table holds the records of two puts, and a writer whose put
\* went to it before the freeze has yet to take state_lock
C13_Witness ==
    \E t \in Writers :
       /\ wr[t].pc = "state_lock"
       /\ \E i \in 1..Len(state.imm_memtable) :
            /\ state.imm_memtable[i] = wr[t].mt
            /\ Cardinality(DOMAIN mems[wr[t].mt].map) = 2

\* a reader holds the snapshot it cloned: between the clone and the search
HoldsSnapshot(r) == rd[r].pc = "lookup"

\* C14, as claimed: nothing a published state references is mutated, so while
\* a reader holds a snapshot the mem-tables it references do not change and
\* the result of looking up any key through it stays the same.
C14_SnapshotImmutable ==
    [][\A r \in Readers :
         HoldsSnapshot(r) =>
           LET snapshot == rd[r].snapshot IN
           /\ mems'[snapshot.memtable] = mems[snapshot.memtable]
           /\ \A i \in 1..Len(snapshot.imm_memtable) :
                mems'[snapshot.imm_memtable[i]] = mems[snapshot.imm_memtable[i]]
           /\ \A k \in Keys :
                LsmGet(mems', snapshot, k) = LsmGet(mems, snapshot, k)]_vars

\* C14, amended: while a reader holds a snapshot, the frozen mem-tables of the
\* snapshot are never changed, and the result of looking up a key through the
\* snapshot changes only by the insert of a put or delete of that key into the
\* snapshot's active mem-table, which happens only while that mem-table is
\* still the active mem-table of the published state; once it has been frozen
\* every result through the snapshot stays the same.
C14_SnapshotFrozenPart ==
    [][\A r \in Readers :
         HoldsSnapshot(r) =>
           LET snapshot == rd[r].snapshot IN
           /\ \A i \in 1..Len(snapshot.imm_memtable) :
                mems'[snapshot.imm_memtable[i]] = mems[snapshot.imm_memtable[i]]
           /\ snapshot.memtable # state.memtable =>
                mems'[snapshot.memtable] = mems[snapshot.memtable]
           /\ \A k \in Keys :
                LsmGet(mems', snapshot, k) # LsmGet(mems, snapshot, k) =>
                  /\ snapshot.memtable = state.memtable
                  /\ \E t \in Writers :
                       /\ wr[t].pc = "insert"
                       /\ wr'[t].pc = "fetch_add"
                       /\ wr[t].mt = snapshot.memtable
                       /\ Rec(t).key = k]_vars

\* a reader holds a snapshot whose active mem-table has since been frozen, and
\* a key reads differently through the snapshot and through the published state
C14_Witness ==
    \E r \in Readers :
       /\ HoldsSnapshot(r)
       /\ rd[r].snapshot.memtable # state.memtable
       /\ \E k \in Keys :
            /\ IsValue(LsmGet(mems, rd[r].snapshot, k))
            /\ LsmGet(mems, state, k) # LsmGet(mems, rd[r].snapshot, k)

\* C16: the lock of the state pointer is never held across I/O. No thread that
\* is at the WAL append of a put (wal.put) or at the creation of the WAL file
\* of a new mem-table (force_freeze_memtable) holds a guard of state.
C16_NoPointerLockAcrossIo ==
    \A t \in Writers :
       wr[t].pc \in {"wal_put", "force_freeze"} => t \notin read_guards

\* no put / delete / write_batch call is in progress
Quiescent == \A t \in Writers : wr[t].pc \in {"idle", "panicked"}

\* every force_freeze_memtable so far has created its mem-table: each one takes
\* an id from next_sst_id, and adds a mem-table unless the WAL file creation fails
NoFreezeError == next_sst_id = Len(mems) - 1

RECURSIVE SumSeq(_)
SumSeq(q) == IF q = <<>> THEN 0 ELSE Head(q) + SumSeq(Tail(q))

\* C17: the size threshold is enforced at quiescence. When no write call is in
\* progress and no freeze has failed, the approximate size of the active
\* mem-table is below target_sst_size; and if the puts applied so far amount to
\* target_sst_size bytes or more, a mem-table has been frozen.
C17_ThresholdAtQuiescence ==
    (Quiescent /\ NoFreezeError) =>
       /\ ApproximateSize(mems[state.memtable]) < options.target_sst_size
       /\ SumSeq(bytes_put) >= options.target_sst_size => state.imm_memtable # <<>>

\* at quiescence a mem-table has been frozen and the active one holds a record
\* smaller than the target
C17_Witness ==
    /\ Quiescent
    /\ NoFreezeError
    /\ state.imm_memtable # <<>>
    /\ ApproximateSize(mems[state.memtable]) > 0
    /\ ApproximateSize(mems[state.memtable]) < options.target_sst_size

\* C18: no premature freeze. Every mem-table in the frozen list has an
\* approximate size of target_sst_size or more; no frozen mem-table is empty;
\* and a writer whose stale observation led it into try_freeze for a mem-table
\* already frozen leaves the fresh active mem-table in place.
C18_NoPrematureFreeze ==
    /\ \A i \in 1..Len(state.imm_memtable) :
         LET m == mems[state.imm_memtable[i]]
         IN /\ ApproximateSize(m) >= options.target_sst_size
            /\ m.map # EmptyMap
    /\ \A a \in skipped :
         \A b \in 1..Len(mems) :
            (b > a /\ ApproximateSize(mems[b]) < options.target_sst_size) =>
               \A i \in 1..Len(state.imm_memtable) : state.imm_memtable[i] # b

\* a writer that saw the frozen mem-table full has declined, and the empty
\* mem-table installed by the freeze is still the active one
C18_Witness ==
    /\ skipped # {}
    /\ Len(state.imm_memtable) = 1
    /\ state.imm_memtable[1] \in skipped
    /\ mems[state.memtable].map = EmptyMap

\* the put or delete of writer t has returned the error of its WAL append
WalAppendFailed(t) ==
    wr[t].pc = "idle" /\ wr[t].res = "err" /\ wr[t].batch # <<>>

FreezeFails(t) ==
    /\ wr[t].pc = "force_freeze"
    /\ wr'[t].pc # "force_freeze"
    /\ options.enable_wal
    /\ path_of_wal(next_sst_id) \in DOMAIN files

\* C20: a failed freeze publishes nothing. When the WAL file of the new
\* mem-table cannot be created because a file is at its path, try_freeze
\* returns the error to the caller, the published state and the mem-tables are
\* as before, state_lock is free, and every key reads as before; after a
\* failed freeze the last value put to a key is still what get gives.
C20_FailedFreezePublishesNothing ==
    /\ [][\A t \in Writers :
            FreezeFails(t) =>
               /\ wr'[t].pc = "idle"
               /\ wr'[t].res = "err"
               /\ state' = state
               /\ mems' = mems
               /\ state_lock' = 0
               /\ \A k \in Keys : LsmGet(mems', state', k) = LsmGet(mems, state, k)]_vars
    /\ [](~NoFreezeError =>
            \A k \in Keys : IsValue(last[k]) => LsmGet(mems, state, k) = last[k])

\* a freeze has failed: its caller has the error, state_lock is free, the
\* active mem-table is still the full one and its data is read by get
C20_Witness ==
    /\ ~NoFreezeError
    /\ state_lock = 0
    /\ \E t \in Writers : wr[t].pc = "idle" /\ wr[t].res = "err"
    /\ ApproximateSize(mems[state.memtable]) >= options.target_sst_size
    /\ \E k \in DOMAIN mems[state.memtable].map :
         /\ IsValue(last[k])
         /\ LsmGet(mems, state, k) = last[k]

\* the call of writer t is over: it has returned, or it has unwound from the
\* assert! of write_batch, which comes before any lock is taken
CallOver(t) == wr[t].pc \in {"idle", "panicked"}

\* the threads inside the decide-and-install section of a freeze
InFreezeSection == {t \in Writers : wr[t].pc \in {"force_freeze", "install"}}

\* C21: no deadlock between the two locks. Under fair scheduling every put,
\* delete, write_batch and get call in progress comes to its end; a thread
\* that waits for state_lock, or takes it, holds no guard of the state pointer
\* (state_lock comes first, the pointer lock second); and at most one thread
\* is inside the decide-and-install section of a freeze, the holder of
\* state_lock.
C21_NoDeadlock ==
    /\ \A t \in Writers : []<>CallOver(t)
    /\ \A r \in Readers : []<>(rd[r].pc = "idle")
    /\ [](\A t \in Writers : wr[t].pc = "state_lock" => t \notin read_guards)
    /\ [][\A t \in Writers :
            (state_lock' = t /\ state_lock # t) => t \notin read_guards]_vars
    /\ [](/\ Cardinality(InFreezeSection) <= 1
          /\ \A t \in InFreezeSection : state_lock = t /\ t \notin read_guards)

\* a freeze holds state_lock and waits in state.write() for the read guard of
\* a put that is under way
C21_Witness ==
    \E t, u \in Writers :
       /\ t # u
       /\ wr[t].pc = "install"
       /\ state_lock = t
       /\ u \in read_guards
       /\ wr[u].pc \in {"insert", "fetch_add", "wal_put", "load_size"}

(***************************************************************************)
(* Properties of the mem-table API (MemSpec)                               *)
(***************************************************************************)
\* C7: WAL round trip. recover_with_wal on the file that a create_with_wal made,
\* and that its mem-table logged its puts and deletes to, succeeds with a
\* mem-table that answers get as the original does for every key.
C7_WalRoundTrip ==
    (api.op = "recover_with_wal" /\ api.existed /\ api.path \in DOMAIN wal_owner) =>
       /\ api.ok
       /\ \A k \in Keys :
            MemTableGet(mems[api.mt], k) = MemTableGet(mems[wal_owner[api.path]], k)

\* recover_with_wal was called on the file of a mem-table holding a value and
\* a tombstone
C7_Witness ==
    /\ api.op = "recover_with_wal"
    /\ api.existed
    /\ api.path \in DOMAIN wal_owner
    /\ \E k1, k2 \in Keys :
         /\ MemTableGet(mems[wal_owner[api.path]], k1) = Some(EmptyBytes)
         /\ IsValue(MemTableGet(mems[wal_owner[api.path]], k2))

\* C8: recover_with_wal fails when no file is at the path, and then creates
\* none; it succeeds when the file a create_with_wal made is there.
C8_RecoverNeedsFile ==
    api.op = "recover_with_wal" =>
       /\ api.ok <=> api.existed
       /\ ~api.existed => api.path \notin DOMAIN files

(***************************************************************************)
(* Properties of the handle (LifeSpec)                                     *)
(***************************************************************************)
\* C10: once close has returned, the stop signal has reached both workers and
\* neither worker thread is running.
C10_CloseJoinsWorkers ==
    lsm.closes > 0 =>
       /\ lsm.flush_thread = "exited"
       /\ lsm.compaction_thread = "exited"

(***************************************************************************)
(* Properties of the created state (CreateSpec)                            *)
(***************************************************************************)
\* C11: the state built by LsmStorageState::create (the published state before
\* any write) has an active mem-table with id 0, an empty frozen list, an empty
\* L0 list and an empty file map; levels holds max_levels empty buckets
\* numbered 1..max_levels under Simple and Leveled options and is empty under
\* Tiered and NoCompaction; and under NoCompaction levels is empty in every
\* reachable state.
C11_CreateLevels ==
    LET c == options.compaction_options IN
    /\ ops = 0 =>
         /\ mems[state.memtable].id = 0
         /\ state.imm_memtable = <<>>
         /\ state.l0_sstable = <<>>
         /\ state.sstables = {}
         /\ c.kind \in {"Simple", "Leveled"} =>
              /\ Len(state.levels) = c.max_levels
              /\ \A i \in 1..c.max_levels : state.levels[i] = <<i, <<>>>>
         /\ c.kind \in {"Tiered", "NoCompaction"} => state.levels = <<>>
    /\ c.kind = "NoCompaction" => state.levels = <<>>

\* an engine created with Simple options of two levels or more
C11_Witness ==
    /\ ops = 0
    /\ options.compaction_options.kind = "Simple"
    /\ options.compaction_options.max_levels >= 2
    /\ Len(state.levels) = options.compaction_options.max_levels

\* C15: a freeze is one atomic transition of the mem-table fields. Every step
\* that changes the published state installs a new, empty mem-table as active
\* and makes the frozen list the old active mem-table followed by the old
\* frozen list; l0_sstable, levels and the file map stay as they were; and in
\* no published state is the active mem-table also in the frozen list.
C15_FreezeAtomicFrame ==
    /\ [](\A i \in 1..Len(state.imm_memtable) :
            state.imm_memtable[i] # state.memtable)
    /\ [][state' # state =>
            /\ state'.imm_memtable = <<state.memtable>> \o state.imm_memtable
            /\ state'.memtable # state.memtable
            /\ mems'[state'.memtable].map = EmptyMap
            /\ ApproximateSize(mems'[state'.memtable]) = 0
            /\ state'.l0_sstable = state.l0_sstable
            /\ state'.levels = state.levels
            /\ state'.sstables = state.sstables]_vars

\* two freezes have happened in an engine that has level buckets
C15_Witness ==
    /\ Len(state.imm_memtable) >= 2
    /\ state.levels # <<>>
    /\ old_state.imm_memtable = Tail(state.imm_memtable)
    /\ old_state.memtable = Head(state.imm_memtable)

====
